---- MODULE Spec2Model ----
(***************************************************************************)
(* FASTQ grouping and batch concatenation:                                 *)
(*   src/genomics/fastq/general_fastq_concat.py  (script = "general")      *)
(*   src/genomics/fastq/ci_fastq_concat.py       (script = "ci")           *)
(* Text is a sequence of one-character strings, so that the regular         *)
(* expressions, split/startswith/replace calls and the sort of the code    *)
(* are computed character by character. The paths a run is given are       *)
(* written as strings and spelled out by chars(p).                         *)
(***************************************************************************)
EXTENDS Integers, Sequences, FiniteSets, TLC

(* ------------------------------------------------------------------ *)
(* Bounds of the model                                                 *)
(* ------------------------------------------------------------------ *)

\* Longest directory listing / glob result a run starts from.
MaxFiles == 4

\* --parallel default (argparse), used when --local is not given.
DefaultParallel == 4

(* ------------------------------------------------------------------ *)
(* Characters and strings                                              *)
(* ------------------------------------------------------------------ *)

Digits == {"0", "1", "2", "3", "4", "5", "6", "7", "8", "9"}

\* Code points of the characters that occur in the file names below:
\* Python compares str values code point by code point.
Ord(c) ==
    CASE c = "-" -> 45 [] c = "." -> 46 [] c = "/" -> 47
      [] c = "0" -> 48 [] c = "1" -> 49 [] c = "2" -> 50 [] c = "3" -> 51
      [] c = "4" -> 52 [] c = "A" -> 65 [] c = "F" -> 70 [] c = "G" -> 71
      [] c = "R" -> 82 [] c = "S" -> 83 [] c = "_" -> 95 [] c = "a" -> 97
      [] c = "b" -> 98 [] c = "c" -> 99 [] c = "f" -> 102 [] c = "g" -> 103
      [] c = "o" -> 111 [] c = "q" -> 113 [] c = "r" -> 114 [] c = "s" -> 115
      [] c = "t" -> 116 [] c = "w" -> 119 [] c = "z" -> 122

\* str.upper() / str.lower() on one character.
Upper(c) ==
    CASE c = "a" -> "A" [] c = "b" -> "B" [] c = "f" -> "F" [] c = "g" -> "G"
      [] c = "q" -> "Q" [] c = "r" -> "R" [] c = "s" -> "S" [] c = "t" -> "T"
      [] c = "w" -> "W" [] c = "z" -> "Z" [] OTHER -> c

Lower(c) ==
    CASE c = "A" -> "a" [] c = "F" -> "f" [] c = "G" -> "g" [] c = "R" -> "r"
      [] c = "S" -> "s" [] OTHER -> c

SetMin(S) == CHOOSE x \in S : \A y \in S : x <= y

SetMax(S) == CHOOSE x \in S : \A y \in S : x >= y

\* s[i:] of Python, 1-based: the characters from position i on.
Tail_from(s, i) == SubSeq(s, i, Len(s))

\* pat occurs in s at position i.
OccursAt(s, pat, i) ==
    /\ i >= 1
    /\ i + Len(pat) - 1 <= Len(s)
    /\ SubSeq(s, i, i + Len(pat) - 1) = pat

\* str.startswith / str.endswith
StartsWith(s, p) == OccursAt(s, p, 1)

EndsWith(s, p) == OccursAt(s, p, Len(s) - Len(p) + 1)

\* str.split(sep): the fields, scanning left to right for non-overlapping sep.
RECURSIVE Split(_, _)
Split(s, sep) ==
    LET hits == {i \in 1..Len(s) : OccursAt(s, sep, i)}
    IN  IF hits = {} THEN <<s>>
        ELSE LET i == SetMin(hits)
             IN  <<SubSeq(s, 1, i - 1)>> \o Split(Tail_from(s, i + Len(sep)), sep)

\* sep.join(fields)
RECURSIVE Join(_, _)
Join(fields, sep) ==
    IF fields = <<>> THEN <<>>
    ELSE IF Len(fields) = 1 THEN fields[1]
    ELSE fields[1] \o sep \o Join(Tail(fields), sep)

\* str.replace(old, new)
Replace(s, old, new) == Join(Split(s, old), new)

\* Python's < on str: lexicographic by code point, a proper prefix first.
StrLess(a, b) ==
    LET n     == IF Len(a) < Len(b) THEN Len(a) ELSE Len(b)
        diffs == {i \in 1..n : a[i] # b[i]}
    IN  IF diffs = {} THEN Len(a) < Len(b)
        ELSE LET i == SetMin(diffs) IN Ord(a[i]) < Ord(b[i])

\* The characters of each path the runs below may be given.
chars(p) ==
    CASE p = "a/A_r1.fq.gz" ->
             <<"a", "/", "A", "_", "r", "1", ".", "f", "q", ".", "g", "z">>
      [] p = "b/A_r1.fq.gz" ->
             <<"b", "/", "A", "_", "r", "1", ".", "f", "q", ".", "g", "z">>
      [] p = "a/A_r1.fastq.gz" ->
             <<"a", "/", "A", "_", "r", "1", ".", "f", "a", "s", "t", "q", ".", "g", "z">>
      [] p = "b/A_r1.fastq.gz" ->
             <<"b", "/", "A", "_", "r", "1", ".", "f", "a", "s", "t", "q", ".", "g", "z">>
      [] p = "a/SR1_r2.fq.gz" ->
             <<"a", "/", "S", "R", "1", "_", "r", "2", ".", "f", "q", ".", "g", "z">>
      [] p = "b/SR1_r2.fq.gz" ->
             <<"b", "/", "S", "R", "1", "_", "r", "2", ".", "f", "q", ".", "g", "z">>
      [] p = "a/w.fq.gz" ->
             <<"a", "/", "w", ".", "f", "q", ".", "g", "z">>
      [] p = "A_r1_F_s1.fq.gz" ->
             <<"A", "_", "r", "1", "_", "F", "_", "s", "1", ".", "f", "q", ".", "g", "z">>
      [] p = "A_r1_F_s2.fq.gz" ->
             <<"A", "_", "r", "1", "_", "F", "_", "s", "2", ".", "f", "q", ".", "g", "z">>
      [] p = "A_r2_F_s1.fq.gz" ->
             <<"A", "_", "r", "2", "_", "F", "_", "s", "1", ".", "f", "q", ".", "g", "z">>
      [] p = "A_r1_F_G_s1.fq.gz" ->
             <<"A", "_", "r", "1", "_", "F", "_", "G", "_", "s", "1", ".", "f", "q", ".", "g", "z">>
      [] p = "w.fq.gz" ->
             <<"w", ".", "f", "q", ".", "g", "z">>

\* Every path of the runs below.
AllPaths ==
    { "a/A_r1.fq.gz", "b/A_r1.fq.gz", "a/A_r1.fastq.gz", "b/A_r1.fastq.gz",
      "a/SR1_r2.fq.gz", "b/SR1_r2.fq.gz", "a/w.fq.gz",
      "A_r1_F_s1.fq.gz", "A_r1_F_s2.fq.gz", "A_r2_F_s1.fq.gz",
      "A_r1_F_G_s1.fq.gz", "w.fq.gz" }

\* StrLess on the text of every two paths, computed once.
PathOrder == [pq \in AllPaths \X AllPaths |-> StrLess(chars(pq[1]), chars(pq[2]))]

\* Python's < on two paths.
PathLess(p, q) == PathOrder[<<p, q>>]

\* sorted(list of paths)
RECURSIVE sorted(_)
sorted(xs) ==
    IF xs = <<>> THEN <<>>
    ELSE LET rest == sorted(Tail(xs))
             x    == Head(xs)
             k    == Cardinality({j \in 1..Len(rest) : PathLess(rest[j], x)})
         IN  SubSeq(rest, 1, k) \o <<x>> \o SubSeq(rest, k + 1, Len(rest))

\* os.path.basename: what follows the last "/".
basename(path) ==
    LET slashes == {i \in 1..Len(path) : path[i] = "/"}
    IN  IF slashes = {} THEN path ELSE Tail_from(path, SetMax(slashes) + 1)

\* os.path.join(dir, name) for a relative name.
path_join(dir, name) == dir \o <<"/">> \o name

FQ_GZ == <<".", "f", "q", ".", "g", "z">>

FASTQ_GZ == <<".", "f", "a", "s", "t", "q", ".", "g", "z">>

(* ------------------------------------------------------------------ *)
(* general_fastq_concat.py: pure functions                             *)
(* ------------------------------------------------------------------ *)

\* One attempt of r'([._-])([rR])[_]?([12])(\D|$)' at position i:
\* the digit matched, or "" when the pattern does not match there.
ReadTokenAt(s, i) ==
    LET n == Len(s)
    IN  IF i + 1 > n \/ s[i] \notin {".", "_", "-"} \/ s[i + 1] \notin {"r", "R"}
        THEN ""
        ELSE IF /\ i + 3 <= n
                /\ s[i + 2] = "_"
                /\ s[i + 3] \in {"1", "2"}
                /\ (i + 4 > n \/ s[i + 4] \notin Digits)
        THEN s[i + 3]
        ELSE IF /\ i + 2 <= n
                /\ s[i + 2] \in {"1", "2"}
                /\ (i + 3 > n \/ s[i + 3] \notin Digits)
        THEN s[i + 2]
        ELSE ""

\* detect_read falling back to read 1 and the whole name as prefix instead
\* of raising ValueError.
detect_read_default(filename) ==
    LET hits == {i \in 1..Len(filename) : ReadTokenAt(filename, i) # ""}
    IN  IF hits = {}
        THEN [ok |-> TRUE, read |-> <<"r", "1">>, prefix |-> filename]
        ELSE LET i == SetMin(hits)
             IN  [ok     |-> TRUE,
                  read   |-> <<Lower(filename[i + 1]), ReadTokenAt(filename, i)>>,
                  prefix |-> SubSeq(filename, 1, i - 1)]

\* detect_read(filename): re.search takes the leftmost match; ok = FALSE is
\* the ValueError.
detect_read(filename) ==
    LET hits == {i \in 1..Len(filename) : ReadTokenAt(filename, i) # ""}
    IN  IF hits = {}
        THEN [ok |-> FALSE, read |-> <<>>, prefix |-> <<>>]
        ELSE LET i == SetMin(hits)
             IN  [ok     |-> TRUE,
                  read   |-> <<Lower(filename[i + 1]), ReadTokenAt(filename, i)>>,
                  prefix |-> SubSeq(filename, 1, i - 1)]

ReadStyles == {"r", "R", "r_", "R_"}

\* format_read(read, style), read being <<"r", digit>>.
format_read(read, style) ==
    CASE style = "r"  -> read
      [] style = "R"  -> <<Upper(read[1]), Upper(read[2])>>
      [] style = "r_" -> <<read[1], "_", read[2]>>
      [] style = "R_" -> <<Upper(read[1]), "_", read[2]>>

\* Length of the match of r'(r[_]?1|R[_]?1|r[_]?2|R[_]?2)' at position i,
\* 0 when there is none.
ReadPartAt(s, i) ==
    LET n == Len(s)
    IN  IF i > n \/ s[i] \notin {"r", "R"} THEN 0
        ELSE IF i + 2 <= n /\ s[i + 1] = "_" /\ s[i + 2] \in {"1", "2"} THEN 3
        ELSE IF i + 1 <= n /\ s[i + 1] \in {"1", "2"} THEN 2
        ELSE 0

\* out_base: the first r1/R1/r_1/... of orig_outfile_name rewritten in the
\* requested style; unchanged when there is none.
reformat_read(orig_outfile_name, style) ==
    LET hits == {i \in 1..Len(orig_outfile_name) : ReadPartAt(orig_outfile_name, i) > 0}
    IN  IF hits = {} THEN orig_outfile_name
        ELSE LET i        == SetMin(hits)
                 e        == i + ReadPartAt(orig_outfile_name, i)
                 read_num == orig_outfile_name[e - 1]
                 new_read == format_read(<<"r", read_num>>, style)
             IN  SubSeq(orig_outfile_name, 1, i - 1) \o new_read
                     \o Tail_from(orig_outfile_name, e)

\* The suffix check of the input loop.
valid_suffix(f) == EndsWith(f, FQ_GZ) \/ EndsWith(f, FASTQ_GZ)

\* outfile_name of one file, per group mode.
exact_outfile_name(base) ==
    IF EndsWith(base, FASTQ_GZ)
    THEN SubSeq(base, 1, Len(base) - 9) \o FQ_GZ
    ELSE base

prefix_outfile_name(prefix, read, style) ==
    prefix \o <<"_">> \o format_read(read, style) \o FQ_GZ

\* The grouping key of one file, per group mode.
group_key(base, prefix, mode) == IF mode = "exact" THEN base ELSE prefix

\* base = os.path.basename(f) of every path, computed once.
Basename == [p \in AllPaths |-> basename(chars(p))]

\* detect_read(base) of every path, computed once.
Detected == [p \in AllPaths |-> detect_read(Basename[p])]

\* The file joins a group: a ValueError of detect_read is printed and the
\* loop continues with the next file.
is_grouped(d) == d.ok

\* The groups dict after the grouping loop has handled files[1..i], in
\* insertion order (a dict iterates in insertion order).
RECURSIVE group_files(_, _, _, _)
group_files(files, i, mode, style) ==
    IF i = 0 THEN <<>>
    ELSE LET g    == group_files(files, i - 1, mode, style)
             f    == files[i]
             base == Basename[f]
             d    == Detected[f]
         IN  IF ~is_grouped(d) THEN g
             ELSE LET key  == group_key(base, d.prefix, mode)
                      name == IF mode = "exact"
                              THEN exact_outfile_name(base)
                              ELSE prefix_outfile_name(d.prefix, d.read, style)
                      hit  == {j \in 1..Len(g) : g[j].key = key /\ g[j].read = d.read}
                  IN  IF hit = {}
                      THEN Append(g, [key |-> key, read |-> d.read,
                                      files |-> <<f>>, outfile_name |-> name])
                      ELSE [j \in 1..Len(g) |->
                               IF j \in hit
                               THEN [g[j] EXCEPT !.files = Append(@, f),
                                                 !.outfile_name = name]
                               ELSE g[j]]

\* The files the grouping loop printed a ValueError for, in order.
unmatched_files(files) ==
    SelectSeq(files, LAMBDA f : ~Detected[f].ok)

(* ------------------------------------------------------------------ *)
(* ci_fastq_concat.py: pure functions                                  *)
(* ------------------------------------------------------------------ *)

US == <<"_">>

DOT == <<".">>

DOTS3 == <<".", ".", ".">>

FASTQ == <<"f", "a", "s", "t", "q">>

FQ == <<"f", "q">>

\* fnmatch of "*_r?_*_s?.fq.gz": some "_r", any character, "_", then
\* anything, then "_s", any character, ".fq.gz" at the end.
glob_match(name) ==
    LET n == Len(name)
    IN  /\ EndsWith(name, FQ_GZ)
        /\ OccursAt(name, <<"_", "s">>, n - 8)
        /\ \E i \in 1..n : /\ OccursAt(name, <<"_", "r">>, i)
                           /\ OccursAt(name, US, i + 3)
                           /\ i + 3 <= n - 9

\* fields[:-2]
drop_last_two(fields) ==
    IF Len(fields) <= 2 THEN <<>> ELSE SubSeq(fields, 1, Len(fields) - 2)

\* name = "_".join(fq.split("_")[:-2])
ci_name(fq) == Join(drop_last_two(Split(fq, US)), US)

\* extens = fq.split(".")[-2].replace("fastq", "fq") + ".gz"
ci_extens(fq) ==
    LET fields == Split(fq, DOT)
    IN  Replace(fields[Len(fields) - 1], FASTQ, FQ) \o <<".", "g", "z">>

\* The string added to uniqes for one file.
ci_unique(fq) == ci_name(fq) \o DOTS3 \o ci_extens(fq)

\* fq is selected into the group of unique by the comprehension of `copies`.
ci_selected(fq, unique) ==
    LET parts      == Split(unique, DOTS3)
        group_name == parts[1]
        group_ext  == parts[Len(parts)]
    IN  StartsWith(fq, group_name) /\ EndsWith(Replace(fq, FASTQ, FQ), group_ext)

\* One element of `planned` (arg_text is "cat " + copies + " > " + outname).
ci_plan(unique, files) ==
    [unique  |-> unique,
     copies  |-> sorted(SelectSeq(files, LAMBDA fq : ci_selected(chars(fq), unique))),
     outname |-> Replace(unique, DOTS3, DOT)]

(* ------------------------------------------------------------------ *)
(* The inputs a run may start from                                     *)
(* ------------------------------------------------------------------ *)

\* --outdir
OutDir == <<"o">>

\* Paths a glob may hand to general_fastq_concat.py: the same basename in two
\* directories, with either extension; a sample whose name holds "R1"; a name
\* without read token.
GeneralCatalogue ==
    { "a/A_r1.fq.gz",
      "b/A_r1.fq.gz",
      "a/A_r1.fastq.gz",
      "b/A_r1.fastq.gz",
      "a/SR1_r2.fq.gz",
      "b/SR1_r2.fq.gz",
      "a/w.fq.gz" }

\* Names a directory scanned by ci_fastq_concat.py may hold.
CICatalogue ==
    { "A_r1_F_s1.fq.gz",
      "A_r1_F_s2.fq.gz",
      "A_r2_F_s1.fq.gz",
      "A_r1_F_G_s1.fq.gz",
      "w.fq.gz" }

Range(f) == {f[i] : i \in DOMAIN f}

\* The orders in which the members of S can be listed.
Orderings(S) ==
    {f \in [1..Cardinality(S) -> S] : \A i, j \in DOMAIN f : i # j => f[i] # f[j]}

\* The listings of at most MaxFiles distinct members of S, in any order.
Listings(S) ==
    UNION {{f \in [1..n -> S] : \A i, j \in 1..n : i # j => f[i] # f[j]} : n \in 0..MaxFiles}

\* Every combination of the flags with the default --parallel, which is more
\* workers than a run of this size has tasks, and --local --parallel 1 (one
\* worker: the tasks run one after the other) with the other options at
\* their defaults.
GeneralArgs ==
    [group_mode : {"exact", "prefix"}, read_style : ReadStyles, dry_run : BOOLEAN,
     local : BOOLEAN, parallel : {DefaultParallel}]
    \cup
    [group_mode : {"exact"}, read_style : {"r"}, dry_run : {FALSE},
     local : {TRUE}, parallel : {1}]

CIArgs == [dry_run : BOOLEAN]

(* ------------------------------------------------------------------ *)
(* State                                                               *)
(* ------------------------------------------------------------------ *)

VARIABLES
    script,              \* which program runs: "general" or "ci"
    args,                \* the parsed command line (NoArgs before parsing)
    pc,                  \* position of the run in the script
    input_files,         \* input_files (general), fqs (ci): the scan result
    warnings,            \* files the grouping loop printed a ValueError for
    groups,              \* groups (general), in insertion order
    planned,             \* planned (ci)
    idx,                 \* index of the next group / planned entry to handle
    fs,                  \* the filesystem: directories, job scripts, outputs
    tasks,               \* tasks collected for the local pool
    pool,                \* per task: "queued", "running" or "returned"
    results,             \* results of pool.map, in task order
    sbatch_calls,        \* the sbatch invocations made, with their outcome
    executed,            \* the cat commands run on this machine, with exit status
    single_file_groups,  \* (outfile_name, path) of the single-file groups
    concat_count,
    shown_example,       \* the job script printed by --dry-run, as a sequence
    report               \* the summary lines printed

vars ==
    <<script, args, pc, input_files, warnings, groups, planned, idx, fs,
      tasks, pool, results, sbatch_calls, executed, single_file_groups,
      concat_count, shown_example, report>>

\* The filesystem before the run: no output directory, nothing written.
EmptyFs == [outdir |-> FALSE, slurmlogs |-> FALSE, scripts |-> <<>>, outputs |-> {}]

\* args before parse_args() has run.
NoArgs == [dry_run |-> FALSE]

Init ==
    /\ script \in {"general", "ci"}
    /\ args = NoArgs
    /\ pc = "start"
    /\ input_files = <<>>
    /\ warnings = <<>>
    /\ groups = <<>>
    /\ planned = <<>>
    /\ idx = 1
    /\ fs = EmptyFs
    /\ tasks = <<>>
    /\ pool = <<>>
    /\ results = <<>>
    /\ sbatch_calls = <<>>
    /\ executed = <<>>
    /\ single_file_groups = <<>>
    /\ concat_count = 0
    /\ shown_example = <<>>
    /\ report = <<>>

(* ------------------------------------------------------------------ *)
(* general_fastq_concat.py                                             *)
(* ------------------------------------------------------------------ *)

\* args = parser.parse_args(), for any command line.
ParseArgs ==
    /\ script = "general" /\ pc = "start"
    /\ args' \in GeneralArgs
    /\ pc' = "scan"
    /\ UNCHANGED <<script, input_files, warnings, groups, planned, idx, fs, tasks, pool,
                   results, sbatch_calls, executed, single_file_groups, concat_count,
                   shown_example, report>>

\* The script stops with sys.exit(1) on these glob results.
rejects_inputs(files) ==
    files = <<>> \/ \E i \in 1..Len(files) : ~valid_suffix(chars(files[i]))

\* glob.glob(args.input_glob), for any glob result in any order; the empty
\* check and the suffix check.
ScanInputs ==
    /\ script = "general" /\ pc = "scan"
    /\ input_files' \in Listings(GeneralCatalogue)
    /\ pc' = IF rejects_inputs(input_files') THEN "exit1" ELSE "group"
    /\ UNCHANGED <<script, args, warnings, groups, planned, idx, fs, tasks,
                   pool, results, sbatch_calls, executed, single_file_groups,
                   concat_count, shown_example, report>>

\* The grouping loop of the chosen group mode.
GroupInputs ==
    /\ script = "general" /\ pc = "group"
    /\ groups' = group_files(input_files, Len(input_files), args.group_mode, args.read_style)
    /\ warnings' = unmatched_files(input_files)
    /\ pc' = "prepare"
    /\ UNCHANGED <<script, args, input_files, planned, idx, fs, tasks, pool,
                   results, sbatch_calls, executed, single_file_groups, concat_count,
                   shown_example, report>>

\* os.makedirs(args.outdir) without the "if not args.dry_run" around it.
creates_outdir_always(a) == TRUE

\* os.makedirs(args.outdir) runs unless --dry-run.
creates_outdir(a) == ~a.dry_run

\* os.makedirs(slurmlogs_dir), which makes args.outdir too, runs for a Slurm
\* run that is not a dry run.
creates_slurmlogs(a) == ~a.local /\ ~a.dry_run

\* "Prepare output directory" and "Prepare slurmlogs directory".
PrepareDirs ==
    /\ script = "general" /\ pc = "prepare"
    /\ fs' = [fs EXCEPT
                !.outdir = @ \/ creates_outdir(args) \/ creates_slurmlogs(args),
                !.slurmlogs = @ \/ creates_slurmlogs(args)]
    /\ idx' = 1
    /\ pc' = "plan"
    /\ UNCHANGED <<script, args, input_files, warnings, groups, planned,
                   tasks, pool, results, sbatch_calls, executed, single_file_groups,
                   concat_count, shown_example, report>>

\* The single-file test written as "len(files) == 0".
is_single_empty(files) == Len(files) = 0

\* A group is skipped as a single-file group.
is_single(files) == Len(files) = 1

\* files_str without sorted().
files_str_unsorted(files) == files

\* files_str: the inputs as the cat command lists them.
files_str(files) == sorted(files)

\* The job script of one group: job name, log path and cat command.
slurm_script(g, out_base) ==
    [job_name |-> <<"c", "a", "t", "_">> \o Replace(g.key, DOT, US) \o US \o g.read,
     output   |-> path_join(path_join(OutDir, <<"s", "l", "u", "r", "m", "l", "o", "g", "s">>),
                            out_base)
                      \o <<".", "s", "l", "u", "r", "m", ".", "o", "u", "t">>,
     cmd      |-> [files |-> files_str(g.files), out_path |-> path_join(OutDir, out_base)]]

\* One iteration of the loop over groups.items().
PlanGroup ==
    /\ script = "general" /\ pc = "plan" /\ idx <= Len(groups)
    /\ idx' = idx + 1
    /\ LET g        == groups[idx]
           out_base == reformat_read(g.outfile_name, args.read_style)
           out_path == path_join(OutDir, out_base)
           job      == slurm_script(g, out_base)
       IN  IF is_single(g.files)
           THEN /\ single_file_groups' = Append(single_file_groups, <<g.outfile_name, g.files[1]>>)
                /\ UNCHANGED <<concat_count, shown_example, tasks, fs, sbatch_calls>>
           ELSE /\ concat_count' = concat_count + 1
                /\ UNCHANGED single_file_groups
                /\ IF args.dry_run
                   THEN /\ shown_example' = IF shown_example = <<>> THEN <<job>> ELSE shown_example
                        /\ UNCHANGED <<tasks, fs, sbatch_calls>>
                   ELSE IF args.local
                   THEN /\ tasks' = Append(tasks, [out_path |-> out_path, files |-> g.files,
                                                   out_base |-> out_base])
                        /\ UNCHANGED <<shown_example, fs, sbatch_calls>>
                   ELSE \* the script is written to a kept temporary file (named
                        \* here by its position in fs.scripts), then
                        \* subprocess.run(["sbatch", tf.name]) without check
                        /\ \E accepted \in BOOLEAN :
                              sbatch_calls' = Append(sbatch_calls,
                                                     [tf_name  |-> Len(fs.scripts) + 1,
                                                      accepted |-> accepted])
                        /\ fs' = [fs EXCEPT !.scripts = Append(@, job)]
                        /\ UNCHANGED <<shown_example, tasks>>
    /\ UNCHANGED <<script, args, pc, input_files, warnings, groups, planned,
                   pool, results, executed, report>>

\* "if args.local and not args.dry_run and tasks"
runs_pool == args.local /\ ~args.dry_run /\ tasks # <<>>

\* Pool(processes=args.parallel): pool.map hands out the tasks.
StartPool ==
    /\ script = "general" /\ pc = "plan" /\ idx > Len(groups)
    /\ runs_pool
    /\ pool' = [i \in 1..Len(tasks) |-> "queued"]
    /\ results' = [i \in 1..Len(tasks) |-> <<>>]
    /\ pc' = "pool"
    /\ UNCHANGED <<script, args, input_files, warnings, groups, planned, idx,
                   fs, tasks, sbatch_calls, executed, single_file_groups, concat_count,
                   shown_example, report>>

SkipPool ==
    /\ script = "general" /\ pc = "plan" /\ idx > Len(groups)
    /\ ~runs_pool
    /\ pc' = "report"
    /\ UNCHANGED <<script, args, input_files, warnings, groups, planned, idx,
                   fs, tasks, pool, results, sbatch_calls, executed, single_file_groups,
                   concat_count, shown_example, report>>

\* The cat command of run_concat_local(task).
local_cmd(task) == [files |-> sorted(task.files), out_path |-> task.out_path]

\* run_concat_local calling subprocess.run without check=True.
run_concat_local_unchecked(task, rc) == [success |-> TRUE, out_base |-> task.out_base]

\* The value run_concat_local(task) returns when its command exits with rc:
\* CalledProcessError is caught and becomes (False, out_base).
run_concat_local(task, rc) == [success |-> rc = 0, out_base |-> task.out_base]

\* A free worker takes a queued task; the shell opens the redirection target.
WorkerStart(i) ==
    /\ script = "general" /\ pc = "pool"
    /\ pool[i] = "queued"
    /\ Cardinality({j \in 1..Len(tasks) : pool[j] = "running"}) < args.parallel
    /\ pool' = [pool EXCEPT ![i] = "running"]
    /\ fs' = [fs EXCEPT !.outputs = @ \cup {tasks[i].out_path}]
    /\ UNCHANGED <<script, args, pc, input_files, warnings, groups, planned,
                   idx, tasks, results, sbatch_calls, executed, single_file_groups,
                   concat_count, shown_example, report>>

\* The command of a running task exits with rc; the worker returns.
WorkerFinish(i, rc) ==
    /\ script = "general" /\ pc = "pool"
    /\ pool[i] = "running"
    /\ pool' = [pool EXCEPT ![i] = "returned"]
    /\ executed' = Append(executed, [task |-> i, cmd |-> local_cmd(tasks[i]), rc |-> rc])
    /\ results' = [results EXCEPT ![i] = run_concat_local(tasks[i], rc)]
    /\ UNCHANGED <<script, args, pc, input_files, warnings, groups, planned,
                   idx, fs, tasks, sbatch_calls, single_file_groups, concat_count,
                   shown_example, report>>

\* The out_base of the results that are not a success, in order.
failed_names(res) ==
    LET bad == SelectSeq(res, LAMBDA r : ~r.success)
    IN  [i \in 1..Len(bad) |-> bad[i].out_base]

\* pool.map returns once every task has; "Completed: .. successful, .. failed".
PoolJoin ==
    /\ script = "general" /\ pc = "pool"
    /\ \A i \in 1..Len(tasks) : pool[i] = "returned"
    /\ LET successful == Cardinality({i \in 1..Len(results) : results[i].success})
           failed     == Len(results) - successful
       IN  report' = report
                \o <<[kind |-> "completed", successful |-> successful, failed |-> failed]>>
                \o (IF failed > 0
                    THEN <<[kind |-> "failed", names |-> failed_names(results)]>>
                    ELSE <<>>)
    /\ pc' = "report"
    /\ UNCHANGED <<script, args, input_files, warnings, groups, planned, idx,
                   fs, tasks, pool, results, sbatch_calls, executed, single_file_groups,
                   concat_count, shown_example>>

\* sorted(single_file_groups): tuples compare field by field.
PairLess(a, b) == StrLess(a[1], b[1]) \/ (a[1] = b[1] /\ PathLess(a[2], b[2]))

RECURSIVE sorted_pairs(_)
sorted_pairs(xs) ==
    IF xs = <<>> THEN <<>>
    ELSE LET rest == sorted_pairs(Tail(xs))
             x    == Head(xs)
             k    == Cardinality({j \in 1..Len(rest) : PairLess(rest[j], x)})
         IN  SubSeq(rest, 1, k) \o <<x>> \o SubSeq(rest, k + 1, Len(rest))

\* The closing line of the run, by mode.
total_line(a, count) ==
    IF a.dry_run
    THEN [kind |-> "would_submit", count |-> count, locally |-> a.local]
    ELSE IF a.local
    THEN [kind |-> "completed_locally", count |-> count]
    ELSE [kind |-> "submitted", count |-> count]

\* The closing line and the "file(s) without matches" list.
FinalReport ==
    /\ script = "general" /\ pc = "report"
    /\ report' = report
            \o <<total_line(args, concat_count)>>
            \o (IF single_file_groups # <<>>
                THEN <<[kind |-> "without_matches",
                        entries |-> sorted_pairs(single_file_groups)]>>
                ELSE <<>>)
    /\ pc' = "done"
    /\ UNCHANGED <<script, args, input_files, warnings, groups, planned, idx,
                   fs, tasks, pool, results, sbatch_calls, executed, single_file_groups,
                   concat_count, shown_example>>

(* ------------------------------------------------------------------ *)
(* ci_fastq_concat.py                                                  *)
(* ------------------------------------------------------------------ *)

\* Exit statuses a cat command may end with.
ExitStatuses == {0, 1}

\* args = parser.parse_args(), for any command line.
CiParseArgs ==
    /\ script = "ci" /\ pc = "start"
    /\ args' \in CIArgs
    /\ pc' = "scan"
    /\ UNCHANGED <<script, input_files, warnings, groups, planned, idx, fs, tasks, pool,
                   results, sbatch_calls, executed, single_file_groups, concat_count,
                   shown_example, report>>

\* os.chdir(args.directory); fqs = glob.glob("*_r?_*_s?.fq.gz"), for any
\* directory content in any order.
CiScan ==
    /\ script = "ci" /\ pc = "scan"
    /\ \E listing \in Listings(CICatalogue) :
          input_files' = SelectSeq(listing, LAMBDA name : glob_match(chars(name)))
    /\ pc' = "group"
    /\ UNCHANGED <<script, args, warnings, groups, planned, idx, fs, tasks,
                   pool, results, sbatch_calls, executed, single_file_groups,
                   concat_count, shown_example, report>>

\* uniqes after the first loop.
uniqes_of(files) == {ci_unique(chars(files[i])) : i \in 1..Len(files)}

\* The loop filling uniqes and the loop filling planned; a set is iterated
\* in an order the program does not control.
CiGroup ==
    /\ script = "ci" /\ pc = "group"
    /\ IF \E i \in 1..Len(input_files) : ~EndsWith(chars(input_files[i]), <<".", "g", "z">>)
       THEN pc' = "crashed" /\ UNCHANGED planned
       ELSE /\ \E order \in Orderings(uniqes_of(input_files)) :
                  planned' = [i \in 1..Len(order) |-> ci_plan(order[i], input_files)]
            /\ pc' = "report"
    /\ UNCHANGED <<script, args, input_files, warnings, groups, idx, fs, tasks,
                   pool, results, sbatch_calls, executed, single_file_groups,
                   concat_count, shown_example, report>>

\* "Planned concatenations", the counts, and the dry-run exit.
CiReport ==
    /\ script = "ci" /\ pc = "report"
    /\ idx' = 1
    /\ IF args.dry_run
       THEN /\ report' = <<[kind |-> "planned", found |-> Len(input_files),
                            count |-> Len(planned)],
                           [kind |-> "dry_run_complete"]>>
            /\ pc' = "done"
       ELSE /\ report' = <<[kind |-> "planned", found |-> Len(input_files),
                            count |-> Len(planned)]>>
            /\ pc' = "exec"
    /\ UNCHANGED <<script, args, input_files, warnings, groups, planned, fs,
                   tasks, pool, results, sbatch_calls, executed, single_file_groups,
                   concat_count, shown_example>>

\* The loop goes on to the next planned entry whatever call() returned.
ci_continues(rc) == TRUE

\* One iteration of the execution loop: call([arg_text], shell=True).
CiExec(rc) ==
    /\ script = "ci" /\ pc = "exec" /\ idx <= Len(planned)
    /\ executed' = Append(executed,
                          [task |-> idx,
                           cmd  |-> [files |-> planned[idx].copies,
                                     out_path |-> planned[idx].outname],
                           rc   |-> rc])
    /\ fs' = [fs EXCEPT !.outputs = @ \cup {planned[idx].outname}]
    /\ idx' = IF ci_continues(rc) THEN idx + 1 ELSE Len(planned) + 1
    /\ UNCHANGED <<script, args, pc, input_files, warnings, groups, planned,
                   tasks, pool, results, sbatch_calls, single_file_groups, concat_count,
                   shown_example, report>>

\* "All concatenations complete."
CiFinish ==
    /\ script = "ci" /\ pc = "exec" /\ idx > Len(planned)
    /\ report' = Append(report, [kind |-> "all_complete"])
    /\ pc' = "done"
    /\ UNCHANGED <<script, args, input_files, warnings, groups, planned, idx,
                   fs, tasks, pool, results, sbatch_calls, executed, single_file_groups,
                   concat_count, shown_example>>

(* ------------------------------------------------------------------ *)
(* Specification                                                       *)
(* ------------------------------------------------------------------ *)

Next ==
    \/ ParseArgs
    \/ ScanInputs
    \/ GroupInputs
    \/ PrepareDirs
    \/ PlanGroup
    \/ StartPool
    \/ SkipPool
    \/ \E i \in 1..Len(tasks) : WorkerStart(i)
    \/ \E i \in 1..Len(tasks), rc \in ExitStatuses : WorkerFinish(i, rc)
    \/ PoolJoin
    \/ FinalReport
    \/ CiParseArgs
    \/ CiScan
    \/ CiGroup
    \/ \E rc \in ExitStatuses : CiExec(rc)
    \/ CiReport
    \/ CiFinish

Spec == Init /\ [][Next]_vars

(* ------------------------------------------------------------------ *)
(* What the properties below talk about                                *)
(* ------------------------------------------------------------------ *)

\* The run is past its grouping step.
Grouped ==
    \/ script = "general" /\ pc \in {"prepare", "plan", "pool", "report", "done"}
    \/ script = "ci" /\ pc \in {"report", "exec", "done"}

\* The inputs a grouping key can be derived for.
Accepted ==
    IF script = "general"
    THEN {f \in Range(input_files) : Detected[f].ok}
    ELSE Range(input_files)

\* The member lists of the groups, in group order.
Memberships ==
    IF script = "general"
    THEN [j \in 1..Len(groups) |-> groups[j].files]
    ELSE [j \in 1..Len(planned) |-> planned[j].copies]

\* How often file f is listed in member list m.
Occurrences(f, m) == Cardinality({k \in 1..Len(m) : m[k] = f})

\* The concatenations general_fastq_concat.py has rendered so far: the cat
\* command of each local task, of each job script handed to sbatch, and of
\* the job script a dry run prints.
Dispatches ==
    {[files |-> local_cmd(tasks[i]).files, out_path |-> tasks[i].out_path] :
        i \in 1..Len(tasks)}
    \cup {fs.scripts[sbatch_calls[i].tf_name].cmd : i \in 1..Len(sbatch_calls)}
    \cup {shown_example[i].cmd : i \in 1..Len(shown_example)}

\* The concatenations rendered for the group with member list m.
DispatchesOf(m) == {d \in Dispatches : Range(d.files) = Range(m)}

\* The "without matches" entries of the final report.
WithoutMatches ==
    UNION {Range(report[i].entries) :
              i \in {k \in 1..Len(report) : report[k].kind = "without_matches"}}

\* The cat commands run for entry j of planned (ci) or task j (local pool).
RunsOf(j) == {k \in 1..Len(executed) : executed[k].task = j}

(* ------------------------------------------------------------------ *)
(* C1                                                                  *)
(* ------------------------------------------------------------------ *)

\* C1: grouping is a partition of the accepted inputs, in both scripts:
\* once the groups are built, every input whose key could be derived is
\* listed in exactly one group, exactly once, and the groups hold nothing
\* but such inputs.
C1_GroupingIsPartition ==
    Grouped =>
        /\ \A f \in Accepted :
              /\ Cardinality({j \in 1..Len(Memberships) : Occurrences(f, Memberships[j]) > 0}) = 1
              /\ \A j \in 1..Len(Memberships) : Occurrences(f, Memberships[j]) <= 1
        /\ UNION {Range(Memberships[j]) : j \in 1..Len(Memberships)} = Accepted

\* The part of C1 that holds: the same statement for general_fastq_concat.py.
C1_GeneralPartition == script = "general" => C1_GroupingIsPartition

(* ------------------------------------------------------------------ *)
(* C2                                                                  *)
(* ------------------------------------------------------------------ *)

C3_DryRunMutatesNothing ==
    (pc # "start" /\ args.dry_run) =>
        fs = EmptyFs /\ sbatch_calls = <<>> /\ executed = <<>> /\ tasks = <<>>

\* A finished dry run of general_fastq_concat.py that had a group to
\* concatenate and printed its job script.
C3_Witness ==
    /\ script = "general" /\ args.dry_run /\ pc = "done"
    /\ concat_count > 0 /\ shown_example # <<>>

(* ------------------------------------------------------------------ *)
(* C4                                                                  *)
(* ------------------------------------------------------------------ *)

\* The style table: the label of read direction d ("1" or "2") in style s.
StyleLabel(d, s) ==
    CASE s = "r"  -> <<"r", d>>
      [] s = "R"  -> <<"R", d>>
      [] s = "r_" -> <<"r", "_", d>>
      [] s = "R_" -> <<"R", "_", d>>

\* C4: in prefix mode the output of every concatenation is
\* key + "_" + label(read, style) + ".fq.gz" in the output directory, for
\* every key and every style.
C4_PrefixOutputName ==
    (script = "general" /\ pc # "start" /\ args.group_mode = "prefix") =>
        \A j \in 1..Len(groups) :
            \A d \in DispatchesOf(groups[j].files) :
                d.out_path = path_join(OutDir,
                                 groups[j].key \o <<"_">>
                                     \o StyleLabel(groups[j].read[2], args.read_style)
                                     \o FQ_GZ)

\* The key holds r or R followed, with or without an underscore, by 1 or 2.
HasReadPart(key) == \E i \in 1..Len(key) : ReadPartAt(key, i) > 0

\* The part of C4 that holds: the same statement for the keys that hold no
\* r1/R1/r2/R2 (or r_1, ...) of their own.
C4_PlainKeyOutputName ==
    (script = "general" /\ pc # "start" /\ args.group_mode = "prefix") =>
        \A j \in 1..Len(groups) :
            ~HasReadPart(groups[j].key) =>
                \A d \in DispatchesOf(groups[j].files) :
                    d.out_path = path_join(OutDir,
                                     groups[j].key \o <<"_">>
                                         \o StyleLabel(groups[j].read[2], args.read_style)
                                         \o FQ_GZ)

(* ------------------------------------------------------------------ *)
(* C5                                                                  *)
(* ------------------------------------------------------------------ *)

\* The output paths of the concatenations that write: local tasks and
\* submitted jobs, one entry per task.
TaskOutputs ==
    [i \in 1..Len(tasks) |-> tasks[i].out_path]
        \o [i \in 1..Len(sbatch_calls) |-> fs.scripts[sbatch_calls[i].tf_name].cmd.out_path]

\* C5: any two distinct concatenation tasks of a run have distinct output
\* paths, in both group modes and every read style.
C5_DistinctOutputPaths ==
    script = "general" =>
        \A i, j \in 1..Len(TaskOutputs) : i # j => TaskOutputs[i] # TaskOutputs[j]

(* ------------------------------------------------------------------ *)
(* C6                                                                  *)
(* ------------------------------------------------------------------ *)

\* xs is in strictly ascending lexicographic order.
Ascending(xs) == \A i, j \in 1..Len(xs) : i < j => PathLess(xs[i], xs[j])

\* The cat commands of the run: those rendered by general_fastq_concat.py,
\* those its local workers ran, and those ci_fastq_concat.py planned.
Commands ==
    {d.files : d \in Dispatches}
    \cup {executed[k].cmd.files : k \in 1..Len(executed)}
    \cup {planned[j].copies : j \in 1..Len(planned)}

\* The scanned files that belong with file f, whatever the scan order: the
\* same read direction and the same basename (exact mode) or the same text
\* before the read token (prefix mode).
SameGroup(f) ==
    IF script = "general"
    THEN {h \in Range(input_files) :
             /\ Detected[h].ok
             /\ Detected[h].read = Detected[f].read
             /\ IF args.group_mode = "exact"
                THEN Basename[h] = Basename[f]
                ELSE Detected[h].prefix = Detected[f].prefix}
    ELSE Range(input_files)

\* C6: whatever order the scan presented the files in, every cat command of
\* the finished run lists its inputs in strictly ascending lexicographic
\* order, and (general) they are exactly the scanned files of one
\* (key, read): the order of the scan leaves no trace in the command.
C6_SortedInputs ==
    pc = "done" =>
        \A c \in Commands :
            /\ Ascending(c)
            /\ c # <<>>
            /\ script = "general" => Range(c) = SameGroup(c[1])

\* A command was rendered for a group whose files the scan presented in
\* descending order.
C6_Witness ==
    /\ script = "general" /\ pc = "done"
    /\ \E j \in 1..Len(groups) :
          /\ Len(groups[j].files) >= 2
          /\ PathLess(groups[j].files[2], groups[j].files[1])
          /\ DispatchesOf(groups[j].files) # {}
    /\ executed # <<>>

(* ------------------------------------------------------------------ *)
(* C7                                                                  *)
(* ------------------------------------------------------------------ *)

\* The paths whose basename holds no read-direction token: no separator
\* ".", "_" or "-" followed by r/R, an optional underscore, 1 or 2, and
\* then a non-digit or the end.
Tokenless ==
    {p \in AllPaths :
        \A i \in 1..Len(Basename[p]) : ReadTokenAt(Basename[p], i) = ""}

\* The groups with two or more files among gs, in order.
Concatenated(gs) == SelectSeq(gs, LAMBDA g : Len(g.files) >= 2)

\* C7: a file without read token is skipped with a warning and is in no
\* group; the run goes on to its end; and the finished run has grouped and
\* dispatched the other files exactly as a run on the input without the
\* tokenless files does: the same groups, and one concatenation, with the
\* same inputs and output, for each of their groups of two or more files.
C7_TokenlessSkipped ==
    script = "general" =>
        /\ warnings # <<>> => pc \in {"prepare", "plan", "pool", "report", "done"}
        /\ pc = "done" =>
              LET kept     == SelectSeq(input_files, LAMBDA f : f \notin Tokenless)
                  expected == group_files(kept, Len(kept), args.group_mode, args.read_style)
                  todo     == Concatenated(expected)
              IN  /\ \A f \in Range(input_files) \cap Tokenless :
                        /\ f \in Range(warnings)
                        /\ \A j \in 1..Len(groups) : f \notin Range(groups[j].files)
                  /\ groups = expected
                  /\ concat_count = Len(todo)
                  /\ ~args.dry_run =>
                        LET rendered == Dispatches
                        IN  /\ Len(tasks) + Len(sbatch_calls) = Len(todo)
                            /\ \A j \in 1..Len(todo) :
                                  [files    |-> sorted(todo[j].files),
                                   out_path |-> path_join(OutDir,
                                                    reformat_read(todo[j].outfile_name,
                                                                  args.read_style))]
                                      \in rendered

\* A finished run that warned about a tokenless file and concatenated a
\* group of the other files.
C7_Witness ==
    /\ script = "general" /\ pc = "done" /\ ~args.dry_run
    /\ warnings # <<>>
    /\ Len(input_files) >= 3
    /\ Dispatches # {}

(* ------------------------------------------------------------------ *)
(* C8                                                                  *)
(* ------------------------------------------------------------------ *)

\* C8: in the execution loop of ci_fastq_concat.py no planned concatenation
\* is started after one that exited non-zero: every command but the last
\* one run exited with 0.
C8_FirstFailureAborts ==
    script = "ci" => \A k \in 1..(Len(executed) - 1) : executed[k].rc = 0

(* ------------------------------------------------------------------ *)
(* C9                                                                  *)
(* ------------------------------------------------------------------ *)

\* The tasks whose command exited non-zero, in task order.
FailedTasks ==
    SelectSeq([i \in 1..Len(tasks) |-> i],
              LAMBDA i : \E k \in RunsOf(i) : executed[k].rc # 0)

\* The summary lines of the given kind.
Lines(kind) == {k \in 1..Len(report) : report[k].kind = kind}

\* C9: in a --local run no task is run twice; the summary is printed only
\* once every task has been run and has returned; and in the finished run
\* every planned task was run exactly once, whatever the others did, its
\* result says success exactly if its command exited with 0, the counts of
\* the summary are those of the commands that exited with 0 and that did
\* not, adding up to the number of planned tasks, and the failed list names
\* exactly the failed tasks.
C9_PoolIndependence ==
    (script = "general" /\ pc # "start" /\ args.local /\ ~args.dry_run) =>
        /\ \A i \in 1..Len(tasks) : Cardinality(RunsOf(i)) <= 1
        /\ Lines("completed") # {} =>
              \A i \in 1..Len(tasks) :
                  pool[i] = "returned" /\ Cardinality(RunsOf(i)) = 1
        /\ (pc = "done" /\ tasks # <<>>) =>
              /\ Len(tasks) = concat_count
              /\ \A i \in 1..Len(tasks) :
                    /\ Cardinality(RunsOf(i)) = 1
                    /\ \A k \in RunsOf(i) : results[i].success <=> executed[k].rc = 0
              /\ \E k \in Lines("completed") :
                    /\ report[k].failed = Len(FailedTasks)
                    /\ report[k].successful = Len(tasks) - Len(FailedTasks)
              /\ Cardinality(Lines("completed")) = 1
              /\ IF FailedTasks = <<>>
                 THEN Lines("failed") = {}
                 ELSE \E k \in Lines("failed") :
                          report[k].names
                              = [n \in 1..Len(FailedTasks) |-> tasks[FailedTasks[n]].out_base]

\* A finished --local run of two tasks in which the task that returned
\* first failed and the other one succeeded.
C9_Witness ==
    /\ script = "general" /\ pc = "done" /\ args.local /\ ~args.dry_run
    /\ Len(tasks) = 2 /\ Len(executed) = 2
    /\ executed[1].rc # 0 /\ executed[2].rc = 0
    /\ executed[1].task # executed[2].task

(* ------------------------------------------------------------------ *)
(* C10                                                                 *)
(* ------------------------------------------------------------------ *)

\* The sbatch invocations that were accepted.
Accepted_jobs == {i \in 1..Len(sbatch_calls) : sbatch_calls[i].accepted}

\* C10: in a Slurm run every concatenation is submitted once, whether or
\* not an earlier submission failed, and the final report tells the failed
\* submissions from the accepted ones: the number of jobs it reports as
\* submitted is the number of submissions that were accepted.
C10_SubmissionFailureReported ==
    (script = "general" /\ pc = "done" /\ ~args.local /\ ~args.dry_run) =>
        /\ Len(sbatch_calls) = concat_count
        /\ \E k \in Lines("submitted") : report[k].count = Cardinality(Accepted_jobs)

\* The part of C10 that holds: no retry, and a failed submission does not
\* stop the later ones.
C10_EachSubmittedOnce ==
    (script = "general" /\ pc = "done" /\ ~args.local /\ ~args.dry_run) =>
        /\ Len(sbatch_calls) = Len(Concatenated(groups))
        /\ \A i, j \in 1..Len(sbatch_calls) :
              i # j => fs.scripts[sbatch_calls[i].tf_name].cmd.files
                           # fs.scripts[sbatch_calls[j].tf_name].cmd.files

(* ------------------------------------------------------------------ *)
(* C11                                                                 *)
(* ------------------------------------------------------------------ *)

\* A basename without its ".fastq.gz" or ".fq.gz" ending.
Stem(base) ==
    IF EndsWith(base, FASTQ_GZ) THEN SubSeq(base, 1, Len(base) - Len(FASTQ_GZ))
    ELSE IF EndsWith(base, FQ_GZ) THEN SubSeq(base, 1, Len(base) - Len(FQ_GZ))
    ELSE base

\* Two scanned files with a read token whose basenames differ only in
\* ending ".fastq.gz" versus ".fq.gz"; they have the same read direction.
ExtensionTwins ==
    {fh \in Range(input_files) \X Range(input_files) :
        /\ Detected[fh[1]].ok /\ Detected[fh[2]].ok
        /\ Detected[fh[1]].read = Detected[fh[2]].read
        /\ Basename[fh[1]] # Basename[fh[2]]
        /\ Stem(Basename[fh[1]]) = Stem(Basename[fh[2]])}

\* C11: once general_fastq_concat.py has built its groups, in exact mode as
\* in prefix mode, two files of the same read direction whose basenames
\* differ only in ending ".fastq.gz" versus ".fq.gz" are members of the same
\* group, and the output name of that group ends in ".fq.gz".
C11_ExtensionNormalized ==
    (script = "general" /\ Grouped) =>
        \A fh \in ExtensionTwins :
            \E j \in 1..Len(groups) :
                /\ fh[1] \in Range(groups[j].files)
                /\ fh[2] \in Range(groups[j].files)
                /\ EndsWith(groups[j].outfile_name, FQ_GZ)

\* The part of C11 that holds: the same statement for prefix mode, and in
\* both modes the output name of every group ends in ".fq.gz".
C11_PrefixModeNormalized ==
    (script = "general" /\ Grouped) =>
        /\ args.group_mode = "prefix" => C11_ExtensionNormalized
        /\ \A j \in 1..Len(groups) : EndsWith(groups[j].outfile_name, FQ_GZ)

====
